---- MODULE Spec2Model ----
(***************************************************************************)
(* ButtonModel of notebooks/agentpy_button_network.ipynb (AgentPy v0.1.5). *)
(*                                                                         *)
(* A model instance owns a network (an undirected networkx Graph), a list  *)
(* of n agents with one node each, and an edge counter `threads`.  The     *)
(* experiment runner drives every run as                                   *)
(*     setup ; update ; (step ; update) x steps                            *)
(* and a run ends early when a handler raises.                             *)
(*                                                                         *)
(* Library behaviour the handlers rely on:                                 *)
(*   - ap.Network(model) wraps a fresh networkx.Graph (undirected, an edge *)
(*     between two nodes is stored once);                                  *)
(*   - AgentList.random(2) samples WITHOUT replacement                     *)
(*     (random.sample), which raises ValueError when the list has fewer    *)
(*     than 2 agents;                                                      *)
(*   - nx.connected_components yields the node sets found by a             *)
(*     breadth-first search from every not yet seen node;                  *)
(*   - x / n is true division; the recorded value is kept as the reduced   *)
(*     fraction <<numerator, denominator>>.                                *)
(***************************************************************************)
EXTENDS Integers, Sequences, FiniteSets, TLC

\* ---- bounds of the model -------------------------------------------------
MaxN == 3            \* n ranges over 1..MaxN
MaxSteps == 2        \* steps ranges over 0..MaxSteps
MaxSpeedNum == 3     \* speed ranges over 0/SpeedDen .. MaxSpeedNum/SpeedDen
SpeedDen == 2
PairMaxN == 2        \* the same three bounds for an experiment of two runs
PairMaxSteps == 1
PairMaxSpeedNum == 1

Runs == {"a", "b"}

VARIABLES
    p,         \* p[r]: the parameters of run r: n, speed (numerator), steps
    pc,        \* pc[r]: position of run r in the runner's schedule
    t,         \* t[r]: the runner's step counter (model.t)
    i,         \* i[r]: iterations done of the for loop of step
    agents,    \* agents[r]: self.agents, the set of agent ids
    node,      \* node[r]: agent -> its node (the attribute agent.node)
    buttons,   \* buttons[r]: self.buttons, a reference into heap (0: unset)
    heap,      \* heap[id]: the graph object id: [nodes, edges]
    threads,   \* threads[r]: self.threads (absent before setup, read as 0)
    pair,      \* pair[r]: the nodes last handed to add_edge (<<>>: none yet)
    log        \* log[r]: the two recorded series

vars == <<p, pc, t, i, agents, node, buttons, heap, threads, pair, log>>

\* ---- pure helpers --------------------------------------------------------
Max(S) == CHOOSE x \in S : \A y \in S : y <= x

RECURSIVE Gcd(_, _)
Gcd(a, b) == IF b = 0 THEN a ELSE Gcd(b, a % b)

\* x / n of Python for n >= 1, as a reduced fraction
TrueDiv(x, n) == LET g == Gcd(x, n) IN <<x \div g, n \div g>>

\* round(n * speed) in place of int(n * speed)
EdgesPerStep_round(q) == (2 * q.n * q.speed + SpeedDen) \div (2 * SpeedDen)

\* range(int(n * speed) + 1): one iteration too many
EdgesPerStep_plusOne(q) == (q.n * q.speed) \div SpeedDen + 1

\* int(self.p.n * self.p.speed) with speed = q.speed / SpeedDen
EdgesPerStep(q) == (q.n * q.speed) \div SpeedDen

\* networkx.Graph()
EmptyGraph == [nodes |-> {}, edges |-> {}]

\* an add_edge that takes out an edge that is already there
AddEdge_toggle(g, u, v) ==
    [nodes |-> g.nodes \cup {u, v},
     edges |-> IF {u, v} \in g.edges THEN g.edges \ {{u, v}} ELSE g.edges \cup {{u, v}}]

\* an add_edge that forgets the edges stored before
AddEdge_replace(g, u, v) == [nodes |-> g.nodes \cup {u, v}, edges |-> {{u, v}}]

\* Graph.add_edge(u, v): endpoints are added when missing, the edge is
\* stored once per unordered pair
AddEdge(g, u, v) == [nodes |-> g.nodes \cup {u, v}, edges |-> g.edges \cup {{u, v}}]

Neighbors(g, v) == {w \in g.nodes : {v, w} \in g.edges}

RECURSIVE PlainBfs(_, _, _)
PlainBfs(g, seen, frontier) ==
    IF frontier = {} THEN seen
    ELSE LET next == (UNION {Neighbors(g, v) : v \in frontier}) \ seen
         IN  PlainBfs(g, seen \cup next, next)

\* nx.connected_components(G)
ConnectedComponents(g) == {PlainBfs(g, {v}, {v}) : v \in g.nodes}

\* len(clusters) in place of the largest len(g)
MaxClusterLen_count(clusters) == Cardinality(clusters)

\* min in place of max
MaxClusterLen_min(clusters) ==
    CHOOSE x \in {Cardinality(c) : c \in clusters} :
        \A y \in {Cardinality(c) : c \in clusters} : x <= y

\* max([len(g) for g in clusters]); the caller handles the empty list
MaxClusterLen(clusters) == Max({Cardinality(c) : c \in clusters})

\* self.threads -= 1
ThreadsPlusOne_minus(x) == x - 1

\* the increment left out
ThreadsPlusOne_skip(x) == x

\* self.threads += 1
ThreadsPlusOne(x) == x + 1

\* a sample of two agents with replacement
Random2_replace(as) == as \X as

\* AgentList.random(2): the ordered samples of two agents without replacement
Random2(as) == {s \in as \X as : s[1] # s[2]}

\* one graph object shared by every model instance
NewGraphId_shared(h) == 1

\* id of the object created by ap.Network(self): a fresh one
NewGraphId(h) == Len(h) + 1

Store(h, id, g) ==
    [k \in 1..(IF id > Len(h) THEN id ELSE Len(h)) |-> IF k = id THEN g ELSE h[k]]

\* every agent is given the first node
NodeOf_same(n, a) == n + 1

\* the node created for the k-th agent by add_agents: node labels are new
\* ids, taken after those of the n agents
NodeOf(n, a) == n + a

\* ---- initial states ------------------------------------------------------
Params(maxN, maxSpeedNum, maxSteps) ==
    [n : 1..maxN, speed : 0..maxSpeedNum, steps : 0..maxSteps]

InitRuns(sched, P) ==
    /\ p \in [Runs -> P]
    /\ \A r \in Runs \ sched : p[r] = [n |-> 1, speed |-> 0, steps |-> 0]
    /\ pc = [r \in Runs |-> IF r \in sched THEN "setup" ELSE "idle"]
    /\ t = [r \in Runs |-> 0]
    /\ i = [r \in Runs |-> 0]
    /\ agents = [r \in Runs |-> {}]
    /\ node = [r \in Runs |-> <<>>]
    /\ buttons = [r \in Runs |-> 0]
    /\ heap = <<>>
    /\ threads = [r \in Runs |-> 0]
    /\ pair = [r \in Runs |-> <<>>]
    /\ log = [r \in Runs |-> [max_cluster_size |-> <<>>, threads_to_button |-> <<>>]]

\* an experiment of one run
Init == InitRuns({"a"}, Params(MaxN, MaxSpeedNum, MaxSteps))

\* an experiment of two runs, interleaved in any order
InitPair == InitRuns(Runs, Params(PairMaxN, PairMaxSpeedNum, PairMaxSteps))

\* ---- actions -------------------------------------------------------------
\* ButtonModel.setup
Setup(r) ==
    /\ pc[r] = "setup"
    /\ LET n  == p[r].n
           id == NewGraphId(heap)
           g  == [nodes |-> {NodeOf(n, a) : a \in 1..n}, edges |-> {}]
       IN  /\ buttons' = [buttons EXCEPT ![r] = id]
           /\ heap' = Store(heap, id, g)
           /\ agents' = [agents EXCEPT ![r] = 1..n]
           /\ node' = [node EXCEPT ![r] = [a \in 1..n |-> NodeOf(n, a)]]
    /\ threads' = [threads EXCEPT ![r] = 0]
    /\ pc' = [pc EXCEPT ![r] = "update"]
    /\ UNCHANGED <<p, t, i, pair, log>>

\* an update that starts the edge counter again after recording it
Update_resetThreads(r) ==
    /\ pc[r] = "update"
    /\ LET clusters == ConnectedComponents(heap[buttons[r]])
       IN  IF clusters = {}
           THEN /\ pc' = [pc EXCEPT ![r] = "error"]
                /\ UNCHANGED log
           ELSE /\ log' = [log EXCEPT
                      ![r].max_cluster_size =
                          Append(@, TrueDiv(MaxClusterLen(clusters), p[r].n)),
                      ![r].threads_to_button =
                          Append(@, TrueDiv(threads[r], p[r].n))]
                /\ pc' = [pc EXCEPT ![r] = IF t[r] >= p[r].steps THEN "done" ELSE "step"]
    /\ threads' = [threads EXCEPT ![r] = 0]
    /\ UNCHANGED <<p, t, i, agents, node, buttons, heap, pair>>

\* ButtonModel.update, then the runner's test t >= steps
Update(r) ==
    /\ pc[r] = "update"
    /\ LET clusters == ConnectedComponents(heap[buttons[r]])
       IN  IF clusters = {}
           THEN \* max() of an empty list: ValueError
                /\ pc' = [pc EXCEPT ![r] = "error"]
                /\ UNCHANGED log
           ELSE /\ log' = [log EXCEPT
                      ![r].max_cluster_size =
                          Append(@, TrueDiv(MaxClusterLen(clusters), p[r].n)),
                      ![r].threads_to_button =
                          Append(@, TrueDiv(threads[r], p[r].n))]
                /\ pc' = [pc EXCEPT ![r] = IF t[r] >= p[r].steps THEN "done" ELSE "step"]
    /\ UNCHANGED <<p, t, i, agents, node, buttons, heap, threads, pair>>

\* the runner advances t and calls ButtonModel.step: the for loop starts
StepEnter(r) ==
    /\ pc[r] = "step"
    /\ t' = [t EXCEPT ![r] = @ + 1]
    /\ i' = [i EXCEPT ![r] = 0]
    /\ pc' = [pc EXCEPT ![r] = "loop"]
    /\ UNCHANGED <<p, agents, node, buttons, heap, threads, pair, log>>

\* one iteration of the for loop of step
StepAddEdge(r) ==
    /\ pc[r] = "loop"
    /\ i[r] < EdgesPerStep(p[r])
    /\ IF Random2(agents[r]) = {}
       THEN \* random.sample: sample larger than population, ValueError
            /\ pc' = [pc EXCEPT ![r] = "error"]
            /\ UNCHANGED <<i, heap, threads, pair>>
       ELSE \E s \in Random2(agents[r]) :
              LET u == node[r][s[1]]
                  v == node[r][s[2]]
              IN  /\ heap' = [heap EXCEPT ![buttons[r]] = AddEdge(@, u, v)]
                  /\ pair' = [pair EXCEPT ![r] = <<u, v>>]
                  /\ threads' = [threads EXCEPT ![r] = ThreadsPlusOne(@)]
                  /\ i' = [i EXCEPT ![r] = @ + 1]
                  /\ UNCHANGED pc
    /\ UNCHANGED <<p, t, agents, node, buttons, log>>

\* the for loop of step is exhausted: step returns
StepReturn(r) ==
    /\ pc[r] = "loop"
    /\ i[r] >= EdgesPerStep(p[r])
    /\ pc' = [pc EXCEPT ![r] = "update"]
    /\ UNCHANGED <<p, t, i, agents, node, buttons, heap, threads, pair, log>>

Next ==
    \E r \in Runs :
        \/ Setup(r)
        \/ Update(r)
        \/ StepEnter(r)
        \/ StepAddEdge(r)
        \/ StepReturn(r)

Spec == Init /\ [][Next]_vars

SpecPair == InitPair /\ [][Next]_vars

\* ---- vocabulary of the properties ----------------------------------------
Graph(r) == heap[buttons[r]]

IsSetUp(r) == buttons[r] # 0

\* floor(n * s) for s = q.speed / SpeedDen: the largest m with m <= n * s
Floor(q) ==
    CHOOSE m \in 0..(q.n * q.speed) :
        /\ m * SpeedDen <= q.n * q.speed
        /\ (m + 1) * SpeedDen > q.n * q.speed

\* a recorded value x equals a / b, x is at most y
RatIs(x, a, b) == x[1] * b = a * x[2]
RatLeq(x, y) == x[1] * y[2] <= y[1] * x[2]

\* S is closed when no edge of g leaves it
Closed(g, S) == \A e \in g.edges : (e \cap S # {}) => e \subseteq S

\* a connected component: a minimal non-empty closed set of nodes
IsComponent(g, S) ==
    /\ S # {}
    /\ S \subseteq g.nodes
    /\ Closed(g, S)
    /\ \A T \in (SUBSET S) \ {{}, S} : ~Closed(g, T)

Components(g) == {S \in SUBSET g.nodes : IsComponent(g, S)}

LargestComponent(g) == Max({Cardinality(S) : S \in Components(g)})

\* the run whose handler takes the transition
Acts(r) == <<pc[r], i[r]>>' # <<pc[r], i[r]>>

\* C1: right after setup and before any step the graph has exactly n nodes
\* and no edges, every node is a component of its own, threads is 0, and
\* the first recorded max_cluster_size is 1/n.
C1_AfterSetup ==
    \A r \in Runs :
        /\ (pc[r] = "update" /\ t[r] = 0) =>
              /\ Cardinality(Graph(r).nodes) = p[r].n
              /\ Graph(r).edges = {}
              /\ Components(Graph(r)) = {{v} : v \in Graph(r).nodes}
              /\ threads[r] = 0
        /\ Len(log[r].max_cluster_size) >= 1 =>
              RatIs(log[r].max_cluster_size[1], 1, p[r].n)

C1_Witness ==
    \E r \in Runs :
        /\ p[r].n >= 2
        /\ pc[r] = "step"
        /\ t[r] = 0
        /\ Len(log[r].max_cluster_size) = 1

\* C2: the recorded max_cluster_size values of a run never decrease from one
\* update to the next.
C2_NonDecreasing ==
    \A r \in Runs :
        \A k \in 1..(Len(log[r].max_cluster_size) - 1) :
            RatLeq(log[r].max_cluster_size[k], log[r].max_cluster_size[k + 1])

C2_Witness ==
    \E r \in Runs :
        /\ Len(log[r].max_cluster_size) = 3
        /\ log[r].max_cluster_size[1] # log[r].max_cluster_size[2]
        /\ threads[r] > Cardinality(Graph(r).edges)

C4_EdgesPerStep ==
    \A r \in Runs :
        /\ pc[r] \in {"setup", "update", "step", "done", "error"} =>
              threads[r] = t[r] * Floor(p[r])
        /\ pc[r] = "loop" =>
              threads[r] = (t[r] - 1) * Floor(p[r]) + i[r]

\* C5: an update appends exactly one value to each series: the size of the
\* largest connected component of the graph at that moment over n, and the
\* edge counter over n.
C5_UpdateRecords ==
    [][\A r \in Runs :
          (pc[r] = "update" /\ Acts(r)) =>
              /\ Len(log'[r].max_cluster_size) = Len(log[r].max_cluster_size) + 1
              /\ Len(log'[r].threads_to_button) = Len(log[r].threads_to_button) + 1
              /\ SubSeq(log'[r].max_cluster_size, 1, Len(log[r].max_cluster_size))
                    = log[r].max_cluster_size
              /\ SubSeq(log'[r].threads_to_button, 1, Len(log[r].threads_to_button))
                    = log[r].threads_to_button
              /\ RatIs(log'[r].max_cluster_size[Len(log'[r].max_cluster_size)],
                       LargestComponent(Graph(r)), p[r].n)
              /\ RatIs(log'[r].threads_to_button[Len(log'[r].threads_to_button)],
                       threads[r], p[r].n)]_vars

C5_Witness ==
    \E r \in Runs :
        /\ Len(log[r].max_cluster_size) = 2
        /\ Cardinality(Components(Graph(r))) = 2
        /\ LargestComponent(Graph(r)) = 2
        /\ log[r].max_cluster_size[2] = <<2, 3>>

\* C6: no call of setup, step or update ends in an error, for any n >= 1
\* and speed >= 0.
C6_NoError == \A r \in Runs : pc[r] # "error"

\* C7: in an experiment of two interleaved runs, a handler of one run leaves
\* the graph, the agents, the edge counter and the series of the other run
\* as they are, and each run's threads_to_button series is the one the run
\* records on its own: value k is (k - 1) * floor(n * s) / n.
RunState(q) ==
    <<agents[q], node[q], threads[q], pair[q], log[q], buttons[q],
      IF IsSetUp(q) THEN Graph(q) ELSE EmptyGraph>>

C7_RunsIndependent ==
    [][\A r \in Runs :
          Acts(r) =>
              /\ \A q \in Runs \ {r} : RunState(q)' = RunState(q)
              /\ \A q \in Runs :
                    \A k \in 1..Len(log'[q].threads_to_button) :
                        log'[q].threads_to_button[k]
                            = TrueDiv((k - 1) * Floor(p[q]), p[q].n)]_vars

C7_Witness ==
    /\ \A r \in Runs : pc[r] = "loop" /\ i[r] = 1 /\ p[r].n = 2
    /\ \A r \in Runs : Len(log[r].threads_to_button) = 1
    /\ \A r \in Runs : Graph(r).edges # {}

\* C8: threads never decreases and only step changes it: setup runs once
\* and leaves it 0, update leaves it as it is.
C8_ThreadsMonotone ==
    [][\A r \in Runs :
          /\ threads'[r] >= threads[r]
          /\ (threads'[r] # threads[r]) => (pc[r] = "loop" /\ Acts(r))
          /\ (pc[r] = "setup" /\ Acts(r)) => threads'[r] = 0
          /\ (pc[r] # "setup") => (pc'[r] # "setup")
          /\ (pc[r] = "update") => (threads'[r] = threads[r])]_vars

C8_Witness ==
    \E r \in Runs : threads[r] >= 2 /\ pc[r] = "done"

\* C9: an edge added between nodes of two different components of sizes a
\* and b leaves one component of size a + b with exactly the nodes of both
\* and every other component as it was; an edge between two nodes of the
\* same component leaves the set of components as it was.
C9_EdgeMergesComponents ==
    [][\A r \in Runs :
          (pc[r] = "loop" /\ i'[r] = i[r] + 1) =>
              LET cs == ConnectedComponents(Graph(r))
                  cu == CHOOSE c \in cs : pair'[r][1] \in c
                  cv == CHOOSE c \in cs : pair'[r][2] \in c
                  cs2 == ConnectedComponents(Graph(r)')
              IN  IF cu # cv
                  THEN /\ cs2 = (cs \ {cu, cv}) \cup {cu \cup cv}
                       /\ Cardinality(cu \cup cv) = Cardinality(cu) + Cardinality(cv)
                       /\ Cardinality(cs2) = Cardinality(cs) - 1
                  ELSE cs2 = cs]_vars

C9_Witness ==
    \E r \in Runs :
        /\ pair[r] # <<>>
        /\ \E c \in ConnectedComponents(Graph(r)) : Cardinality(c) >= 3
        /\ threads[r] > Cardinality(Graph(r).edges)

\* C10: the two agents drawn for an edge are never the same agent, so no
\* graph ever holds an edge from a node to itself.
C10_NoSelfLoop ==
    \A r \in Runs :
        /\ pair[r] # <<>> => pair[r][1] # pair[r][2]
        /\ IsSetUp(r) => \A e \in Graph(r).edges : Cardinality(e) = 2

C10_Witness ==
    \E r \in Runs : pair[r] # <<>> /\ Graph(r).edges # {}

\* the step of run r that adds an edge
AddsEdge(r) == pc[r] = "loop" /\ i'[r] = i[r] + 1

\* C11 (as stated): self-pairs are possible: whenever step is about to draw
\* the endpoints of an edge (n >= 1, floor(n * speed) >= 1), the draw can
\* give the same agent, hence the same node, twice.
C11_SelfPairPossible ==
    \A r \in Runs :
        (pc[r] = "loop" /\ i[r] < Floor(p[r])) =>
            \E s \in Random2(agents[r]) : node[r][s[1]] = node[r][s[2]]

\* C11 (amended): no draw of step gives the same node twice: every edge
\* addition hands two different nodes of the run's graph to add_edge,
\* stores that edge and raises threads by one; with a single agent no pair
\* can be drawn at all.
C11_NoSelfPairDrawn ==
    [][\A r \in Runs :
          /\ AddsEdge(r) =>
                /\ pair'[r][1] # pair'[r][2]
                /\ {pair'[r][1], pair'[r][2]} \subseteq Graph(r).nodes
                /\ {pair'[r][1], pair'[r][2]} \in Graph(r)'.edges
                /\ threads'[r] = threads[r] + 1
          /\ (pc[r] = "loop" /\ Cardinality(agents[r]) = 1) => ~AddsEdge(r)]_vars

C11_Witness ==
    \E r \in Runs :
        /\ pc[r] = "loop"
        /\ i[r] = 2
        /\ threads[r] = 2
        /\ pair[r] # <<>>
        /\ {pair[r][1], pair[r][2]} \in Graph(r).edges

\* C12 (as stated): repeated pairs are stored as parallel edges, so the
\* number of edges stored in the graph always equals threads.
C12_EdgesEqualThreads ==
    \A r \in Runs : IsSetUp(r) => Cardinality(Graph(r).edges) = threads[r]

\* C12 (amended): step may draw a pair that is already connected by an
\* edge; the graph then keeps its single edge for that pair while threads
\* still grows by one, so the number of edges stored is at most threads.
C12_EdgesAtMostThreads ==
    [][\A r \in Runs :
          /\ IsSetUp(r)' => Cardinality(Graph(r)'.edges) <= threads'[r]
          /\ AddsEdge(r) =>
                LET e == {pair'[r][1], pair'[r][2]}
                IN  /\ Graph(r)'.edges = Graph(r).edges \cup {e}
                    /\ (e \in Graph(r).edges) => (Graph(r)' = Graph(r))
                    /\ threads'[r] = threads[r] + 1]_vars

C12_Witness ==
    \E r \in Runs :
        /\ pair[r] # <<>>
        /\ threads[r] = 2
        /\ Cardinality(Graph(r).edges) = 1

\* C13: once setup has run the graph has exactly n nodes, the attribute
\* node maps the n agents one-to-one onto them, and neither step nor update
\* adds or removes a node: step adds edges between nodes that are there.
C13_NodesFixed ==
    [][\A r \in Runs :
          /\ IsSetUp(r)' =>
                /\ Cardinality(Graph(r)'.nodes) = p[r].n
                /\ Cardinality(agents'[r]) = p[r].n
                /\ DOMAIN node'[r] = agents'[r]
                /\ {node'[r][a] : a \in agents'[r]} = Graph(r)'.nodes
                /\ \A a, b \in agents'[r] : (node'[r][a] = node'[r][b]) => (a = b)
                /\ \A e \in Graph(r)'.edges : e \subseteq Graph(r)'.nodes
          /\ IsSetUp(r) =>
                /\ Graph(r)'.nodes = Graph(r).nodes
                /\ agents'[r] = agents[r]
                /\ node'[r] = node[r]
                /\ Graph(r).edges \subseteq Graph(r)'.edges]_vars

C13_Witness ==
    \E r \in Runs :
        /\ pc[r] = "done"
        /\ p[r].n = 3
        /\ Cardinality(Graph(r).edges) = 3
        /\ Len(log[r].max_cluster_size) = 3

\* C14: every recorded max_cluster_size v satisfies 1/n <= v <= 1, and once
\* a recorded value is 1 every later recorded value of the run is 1.
C14_ClusterSizeRange ==
    \A r \in Runs :
        \A k \in 1..Len(log[r].max_cluster_size) :
            LET v == log[r].max_cluster_size[k]
            IN  /\ v[2] > 0
                /\ v[1] * p[r].n >= v[2]
                /\ v[1] <= v[2]
                /\ (v[1] = v[2]) =>
                      \A j \in k..Len(log[r].max_cluster_size) :
                          log[r].max_cluster_size[j][1] = log[r].max_cluster_size[j][2]

C14_Witness ==
    \E r \in Runs :
        /\ p[r].n = 3
        /\ Len(log[r].max_cluster_size) = 3
        /\ log[r].max_cluster_size[1] = <<1, 3>>
        /\ log[r].max_cluster_size[2] = <<1, 1>>
        /\ log[r].max_cluster_size[3] = <<1, 1>>

\* C15: the largest connected component never has more than threads + 1
\* nodes, so every pair of values recorded by one update satisfies
\* max_cluster_size <= threads_to_button + 1/n.
C15_ClusterBoundedByThreads ==
    \A r \in Runs :
        /\ IsSetUp(r) => LargestComponent(Graph(r)) <= threads[r] + 1
        /\ Len(log[r].max_cluster_size) = Len(log[r].threads_to_button)
        /\ \A k \in 1..Len(log[r].max_cluster_size) :
              LET v == log[r].max_cluster_size[k]
                  w == log[r].threads_to_button[k]
              IN  \* v <= w + 1/n
                  v[1] * w[2] * p[r].n <= (w[1] * p[r].n + w[2]) * v[2]

C15_Witness ==
    \E r \in Runs :
        /\ p[r].n = 3
        /\ threads[r] = 2
        /\ LargestComponent(Graph(r)) = 3
        /\ Len(log[r].max_cluster_size) >= 2
        /\ log[r].max_cluster_size[Len(log[r].max_cluster_size)] = <<1, 1>>

Last(s) == s[Len(s)]

\* C16: a run does setup once and first, then update, then step and update
\* `steps` times, and stops: step is never called more than `steps` times,
\* the series grow by one value per update, and a run that has ended has
\* made all its steps and holds steps + 1 values in each series.
C16_RunSchedule ==
    \A r \in Runs :
        /\ t[r] <= p[r].steps
        /\ (pc[r] = "setup") => (~IsSetUp(r) /\ t[r] = 0 /\ Len(log[r].max_cluster_size) = 0)
        /\ (pc[r] \in {"step", "done"}) =>
              /\ Len(log[r].max_cluster_size) = t[r] + 1
              /\ Len(log[r].threads_to_button) = t[r] + 1
        /\ (pc[r] \in {"done", "error"}) =>
              /\ t[r] = p[r].steps
              /\ Len(log[r].max_cluster_size) = p[r].steps + 1
              /\ Len(log[r].threads_to_button) = p[r].steps + 1

\* C17: when floor(n * speed) = 0 step adds no edge and leaves the graph and
\* threads as they are, so every recorded max_cluster_size is 1/n and every
\* recorded threads_to_button is 0.
C17_NoEdgesAtZeroRate ==
    \A r \in Runs :
        (Floor(p[r]) = 0) =>
            /\ IsSetUp(r) => (Graph(r).edges = {} /\ threads[r] = 0)
            /\ pair[r] = <<>>
            /\ \A k \in 1..Len(log[r].max_cluster_size) :
                  RatIs(log[r].max_cluster_size[k], 1, p[r].n)
            /\ \A k \in 1..Len(log[r].threads_to_button) :
                  RatIs(log[r].threads_to_button[k], 0, p[r].n)

C17_Witness ==
    \E r \in Runs :
        /\ p[r].speed > 0
        /\ Floor(p[r]) = 0
        /\ pc[r] = "done"
        /\ t[r] = 2
        /\ Len(log[r].max_cluster_size) = 3

\* C18: update leaves the nodes and edges of the graph and threads as they
\* are and only appends to the two series, so an update repeated on the
\* state it leaves would record the same two values again: the values just
\* recorded are those of the graph and the counter after the update.
C18_UpdateReadOnly ==
    [][\A r \in Runs :
          (pc[r] = "update" /\ Acts(r)) =>
              /\ heap' = heap
              /\ buttons' = buttons
              /\ agents' = agents
              /\ node' = node
              /\ threads' = threads
              /\ pair' = pair
              /\ RatIs(Last(log'[r].max_cluster_size),
                       LargestComponent(Graph(r)'), p[r].n)
              /\ RatIs(Last(log'[r].threads_to_button), threads'[r], p[r].n)]_vars

C18_Witness ==
    \E r \in Runs :
        /\ pc[r] \in {"step", "done"}
        /\ threads[r] >= 2
        /\ Graph(r).edges # {}
        /\ Len(log[r].threads_to_button) >= 2
        /\ Last(log[r].threads_to_button)[1] > 0

====
